---- MODULE Spec2Model ----
(***************************************************************************)
(* Model of src/news_digest.py: the morning-brief pipeline.                *)
(*                                                                         *)
(* The program is one sequential flow (generate_morning_brief run by       *)
(* asyncio.run from __main__).  The model follows its control position in  *)
(* pc and draws every answer of the environment (constructors, the search  *)
(* service's methods, DuckDuckGo, the analyzer, the mail sender) from a    *)
(* small set at the step that makes the call.                              *)
(*                                                                         *)
(* Texts coming back from search are modelled by their origin and their    *)
(* length; the text returned by the analyzer is a sequence of characters,  *)
(* because the code edits it (replace, strip).                             *)
(***************************************************************************)
EXTENDS Integers, Sequences, FiniteSets, TLC

\* ---------------------------------------------------------------- bounds
\* The search service object exposes at most this many of the probed names.
MaxSvcMethods == 2

\* ------------------------------------------------------ program constants
\* line 169
possible_methods ==
    << "search_with_gemini", "smart_search", "search_news", "search",
       "query", "fetch", "run" >>

\* line 220-225: the four queries, by their length in characters
QLen == << 29, 65, 20, 23 >>
NumQueries == Len(QLen)

\* line 237: len(res_text) < 100
Threshold == 100
\* line 245: len(raw_context) < 100
HardMin == 100
\* line 241: res_text[:3000]
TruncBudget == 3000
\* line 241: "\nQuery: " , "\nResults:\n" , "\n"
QueryTagLen == 8
ResultsTagLen == 10
TailLen == 1

\* ----------------------------------------------------- environment ranges
\* lengths of the non-empty texts a search service method can return
ProjLens == {40, 100}
\* lengths of the non-empty texts fallback_search_ddg can build
DdgLens == {40, 3500}

\* texts the analyzer can return (sequences of characters)
\* "BT" stands for the backtick character
BT == "BT"
\* line 302: the two markers removed from the analyzer's text
Fence == << BT, BT, BT >>
FenceHtml == << BT, BT, BT, "h", "t", "m", "l" >>
GenTexts ==
    { << "x" >>,
      FenceHtml \o << "\n", "x", "\n" >> \o Fence }

\* longest analyzer text examined on its own, in pieces
MaxTokens == 4
\* the pieces such a text is made of: backticks alone and in pairs, the
\* html marker, a character of the payload, white space
Tokens == { << BT >>, << BT, BT >>, FenceHtml, << "x" >>, << "\n" >> }

RECURSIVE Concats(_)
Concats(n) ==
    IF n = 0 THEN { << >> }
    ELSE LET prev == Concats(n - 1)
         IN prev \cup { s \o t : s \in prev, t \in Tokens }

\* line 293-296: what chat or analyze can return as html_content
HtmlTexts == Concats(MaxTokens)

\* ------------------------------------------------------------------ texts
\* A search text: the tiers whose results it contains, and its length.
\* None and "" are both the text of length 0.
NoText == [parts |-> {}, len |-> 0]
Text(s, n) == [parts |-> {s}, len |-> n]
\* Python truthiness of a str-or-None value
Truthy(t) == t.len > 0

Min(a, b) == IF a < b THEN a ELSE b

\* ---------------------------------------------------------- pure helpers
\* s[i:] starts with pat
StartsAt(s, i, pat) ==
    /\ i + Len(pat) - 1 <= Len(s)
    /\ \A k \in 1..Len(pat) : s[i + k - 1] = pat[k]

\* str.replace(pat, ""): left to right, non-overlapping
RECURSIVE RemoveFrom(_, _, _)
RemoveFrom(s, i, pat) ==
    IF i > Len(s) THEN << >>
    ELSE IF StartsAt(s, i, pat) THEN RemoveFrom(s, i + Len(pat), pat)
    ELSE << s[i] >> \o RemoveFrom(s, i + 1, pat)

Remove(s, pat) == RemoveFrom(s, 1, pat)

IsSpace(c) == c \in {" ", "\n"}

\* str.strip()
RECURSIVE LStrip(_)
LStrip(s) ==
    IF s = << >> THEN s
    ELSE IF IsSpace(Head(s)) THEN LStrip(Tail(s)) ELSE s

RECURSIVE RStrip(_)
RStrip(s) ==
    IF s = << >> THEN s
    ELSE IF IsSpace(s[Len(s)]) THEN RStrip(SubSeq(s, 1, Len(s) - 1)) ELSE s

Strip(s) == LStrip(RStrip(s))

\* variant of line 302 without .replace("```", "")
CleanHtml_OnlyHtmlFence(s) == Strip(Remove(s, FenceHtml))

\* line 302
CleanHtml(s) == Strip(Remove(Remove(s, FenceHtml), Fence))

\* variant of line 241 without the slice [:3000]
Contribution_NoTrunc(q, t) == [q |-> q, parts |-> t.parts, len |-> t.len]

\* variant of line 241 with a wrong budget in the slice ([:30000])
Contribution_WrongBudget(q, t) ==
    [q |-> q, parts |-> t.parts, len |-> Min(t.len, 10 * TruncBudget)]

\* line 241: the piece one query adds to raw_context
Contribution(q, t) ==
    [q |-> q, parts |-> t.parts, len |-> Min(t.len, TruncBudget)]

PieceLen(c) == QueryTagLen + QLen[c.q] + ResultsTagLen + c.len + TailLen

\* len(raw_context)
RECURSIVE RawLen(_)
RawLen(rc) ==
    IF rc = << >> THEN 0 ELSE PieceLen(Head(rc)) + RawLen(Tail(rc))

\* ------------------------------------------------------------------ state
VARIABLES
    pc,              \* control position
    SearchService,   \* module global: the class was imported
    LLMAnalyzer,     \* module global: an analyzer class was found
    search_service,  \* "None", or the argument its constructor accepted
    llm_analyzer,    \* "None", or the argument its constructor accepted
    qi,              \* index of the query being processed
    res_text,        \* line 231/234/238
    projText,        \* what smart_project_search returned in this iteration
    ddgCalled,       \* fallback_search_ddg was called in this iteration
    mi,              \* index into possible_methods (0 outside the function)
    found,           \* names found on the service in this invocation
    call,            \* the call the latest step made to a collaborator
    raw_context,     \* line 227/241, as the sequence of pieces
    ddgQueries,      \* the queries fallback_search_ddg was called for
    analyzerAttrs,   \* which of chat / analyze the analyzer object has
    genCalls,        \* the calls made to the analyzer
    genAnswer,       \* how the latest analyzer call ended
    html_content,    \* line 289
    sent,            \* the bodies handed to send_email_standalone
    exitCode,        \* -1 while running, then the process exit code
    nameCalls,       \* calls made to the name the probe found last
    promptLen,       \* length of the corpus placed in the prompt (line 258)
    fnArg,           \* the input of a function checked on its own
    fnResult         \* its result

vars == << pc, SearchService, LLMAnalyzer, search_service, llm_analyzer, qi,
           res_text, projText, ddgCalled, mi, found, call, raw_context,
           ddgQueries, analyzerAttrs, genCalls, genAnswer, html_content,
           sent, exitCode, nameCalls, promptLen, fnArg, fnResult >>

\* A call event: the callee (kind, and m for a probed method), the query it
\* was made for, the arguments, how it ended, and whether the handler that
\* caught a raise wrote a log record.
NoCall ==
    [kind |-> "none", q |-> 0, m |-> 0, args |-> "", out |-> "none",
     logged |-> FALSE]
Call(k, q, m, a, o, l) ==
    [kind |-> k, q |-> q, m |-> m, args |-> a, out |-> o, logged |-> l]

\* what the analyzer can answer: a raise, or a returned text (maybe empty)
GenAnswers ==
    {[kind |-> "raise", text |-> << >>]}
        \cup {[kind |-> "return", text |-> t] : t \in GenTexts \cup {<< >>}}
NoAnswer == [kind |-> "none", text |-> << >>]

\* lines 58-96: one ImportError clears all three globals; with the modules
\* present an analyzer class may still not be found
Init ==
    /\ pc = "start"
    /\ SearchService \in BOOLEAN
    /\ LLMAnalyzer \in (IF SearchService THEN BOOLEAN ELSE {FALSE})
    /\ search_service = "None"
    /\ llm_analyzer = "None"
    /\ qi = 1
    /\ res_text = NoText
    /\ projText = NoText
    /\ ddgCalled = FALSE
    /\ mi = 0
    /\ found = 0
    /\ call = NoCall
    /\ raw_context = << >>
    /\ ddgQueries = {}
    /\ analyzerAttrs = {}
    /\ genCalls = << >>
    /\ genAnswer = NoAnswer
    /\ html_content = << >>
    /\ sent = << >>
    /\ exitCode = -1
    /\ nameCalls = 0
    /\ promptLen = 0
    /\ fnArg = << >>
    /\ fnResult = << >>

\* ------------------------------------------------------- initialisation
\* sys.exit(0): SystemExit is not an Exception, no handler of the program
\* catches it on the paths that raise it
SysExit0 ==
    /\ pc' = "exit"
    /\ exitCode' = 0

\* lines 197-198: cfg = Config() if Config else {}
Start ==
    /\ pc = "start"
    /\ \E raises \in (IF SearchService THEN BOOLEAN ELSE {FALSE}) :
          pc' = IF raises THEN "top_except" ELSE "ss_ctor1"
    /\ call' = NoCall
    /\ UNCHANGED << SearchService, LLMAnalyzer, search_service,
                    llm_analyzer, qi, res_text, projText, ddgCalled, mi,
                    found, raw_context, genCalls, html_content, sent,
                    exitCode, analyzerAttrs, genAnswer, ddgQueries,
                    fnArg, fnResult, nameCalls, promptLen >>

\* lines 204, 206, 210, 212: the arguments of the constructor attempts
CtorArgs == << "wrapped_cfg", "cfg" >>

\* lines 203-204: try: search_service = SearchService(wrapped_cfg)
SearchServiceCtor1 ==
    /\ pc = "ss_ctor1"
    /\ IF ~SearchService
       THEN /\ pc' = "an_ctor1"
            /\ call' = NoCall
            /\ UNCHANGED search_service
       ELSE \E ok \in BOOLEAN :
            /\ call' = Call("SearchService", 0, 0, CtorArgs[1],
                            IF ok THEN "ok" ELSE "raise", FALSE)
            /\ search_service' = IF ok THEN CtorArgs[1] ELSE search_service
            /\ pc' = IF ok THEN "an_ctor1" ELSE "ss_ctor2"
    /\ UNCHANGED << SearchService, LLMAnalyzer, llm_analyzer, qi,
                    res_text, projText, ddgCalled, mi, found,
                    raw_context, genCalls, html_content, sent, exitCode,
                    analyzerAttrs, genAnswer, ddgQueries, fnArg,
                    fnResult, nameCalls, promptLen >>

\* lines 205-207: except: try: search_service = SearchService(cfg); except: pass
SearchServiceCtor2 ==
    /\ pc = "ss_ctor2"
    /\ \E ok \in BOOLEAN :
          /\ call' = Call("SearchService", 0, 0, CtorArgs[2],
                          IF ok THEN "ok" ELSE "raise", FALSE)
          /\ search_service' = IF ok THEN CtorArgs[2] ELSE search_service
    /\ pc' = "an_ctor1"
    /\ UNCHANGED << SearchService, LLMAnalyzer, llm_analyzer, qi,
                    res_text, projText, ddgCalled, mi, found,
                    raw_context, genCalls, html_content, sent, exitCode,
                    analyzerAttrs, genAnswer, ddgQueries, fnArg,
                    fnResult, nameCalls, promptLen >>

\* lines 209-210: try: llm_analyzer = LLMAnalyzer(wrapped_cfg)
LLMAnalyzerCtor1 ==
    /\ pc = "an_ctor1"
    /\ IF ~LLMAnalyzer
       THEN /\ pc' = "an_check"
            /\ call' = NoCall
            /\ UNCHANGED llm_analyzer
       ELSE \E ok \in BOOLEAN :
            /\ call' = Call("LLMAnalyzer", 0, 0, CtorArgs[1],
                            IF ok THEN "ok" ELSE "raise", FALSE)
            /\ llm_analyzer' = IF ok THEN CtorArgs[1] ELSE llm_analyzer
            /\ pc' = IF ok THEN "an_check" ELSE "an_ctor2"
    /\ UNCHANGED << SearchService, LLMAnalyzer, search_service, qi,
                    res_text, projText, ddgCalled, mi, found,
                    raw_context, genCalls, html_content, sent, exitCode,
                    analyzerAttrs, genAnswer, ddgQueries, fnArg,
                    fnResult, nameCalls, promptLen >>

\* lines 211-213: except: try: llm_analyzer = LLMAnalyzer(cfg); except: pass
LLMAnalyzerCtor2 ==
    /\ pc = "an_ctor2"
    /\ \E ok \in BOOLEAN :
          /\ call' = Call("LLMAnalyzer", 0, 0, CtorArgs[2],
                          IF ok THEN "ok" ELSE "raise", FALSE)
          /\ llm_analyzer' = IF ok THEN CtorArgs[2] ELSE llm_analyzer
    /\ pc' = "an_check"
    /\ UNCHANGED << SearchService, LLMAnalyzer, search_service, qi,
                    res_text, projText, ddgCalled, mi, found,
                    raw_context, genCalls, html_content, sent, exitCode,
                    analyzerAttrs, genAnswer, ddgQueries, fnArg,
                    fnResult, nameCalls, promptLen >>

\* variant of lines 215-217 without the test: the run goes on to the
\* acquisition whether or not an analyzer exists
AnalyzerCheck_NoExit ==
    /\ pc = "an_check"
    /\ pc' = "q_head"
    /\ call' = NoCall
    /\ UNCHANGED << SearchService, LLMAnalyzer, search_service,
                    llm_analyzer, qi, res_text, projText, ddgCalled, mi,
                    found, raw_context, genCalls, html_content, sent,
                    exitCode, analyzerAttrs, genAnswer, ddgQueries, fnArg,
                    fnResult, nameCalls, promptLen >>

\* lines 215-217: if not llm_analyzer: sys.exit(0)
AnalyzerCheck ==
    /\ pc = "an_check"
    /\ IF llm_analyzer = "None"
       THEN SysExit0
       ELSE /\ pc' = "q_head"
            /\ UNCHANGED exitCode
    /\ call' = NoCall
    /\ UNCHANGED << SearchService, LLMAnalyzer, search_service,
                    llm_analyzer, qi, res_text, projText, ddgCalled, mi,
                    found, raw_context, genCalls, html_content, sent,
                    analyzerAttrs, genAnswer, ddgQueries, fnArg,
                    fnResult, nameCalls, promptLen >>

\* ----------------------------------------------------------- acquisition
\* variant of line 233 without the test
Available_Always(svc) == TRUE

\* line 233: if search_service
Available(svc) == svc # "None"

\* lines 230-234: the head of "for q in queries", res_text = "", and the
\* entry into smart_project_search when a search service exists
QueryHead ==
    /\ pc = "q_head"
    /\ IF qi > NumQueries
       THEN /\ pc' = "corpus_check"
            /\ UNCHANGED << res_text, projText, ddgCalled, mi, found,
                            nameCalls >>
       ELSE /\ res_text' = NoText
            /\ projText' = NoText
            /\ ddgCalled' = FALSE
            /\ found' = 0
            /\ nameCalls' = 0
            /\ IF Available(search_service)
               THEN pc' = "sps_loop" /\ mi' = 1
               ELSE pc' = "fallback_check" /\ mi' = 0
    /\ call' = NoCall
    /\ UNCHANGED << SearchService, LLMAnalyzer, search_service,
                    llm_analyzer, qi, raw_context, genCalls,
                    html_content, sent, exitCode, analyzerAttrs,
                    genAnswer, ddgQueries, fnArg, fnResult, promptLen >>

\* lines 171-174: hasattr(service, method) and callable(func)
SpsProbe ==
    /\ pc = "sps_loop"
    /\ mi <= Len(possible_methods)
    /\ \E has \in (IF found < MaxSvcMethods THEN BOOLEAN ELSE {FALSE}) :
          IF has
          THEN /\ found' = found + 1
               /\ nameCalls' = 0
               /\ pc' = "sps_call1"
               /\ UNCHANGED mi
          ELSE /\ mi' = mi + 1
               /\ UNCHANGED << pc, found, nameCalls >>
    /\ call' = NoCall
    /\ UNCHANGED << SearchService, LLMAnalyzer, search_service,
                    llm_analyzer, qi, res_text, projText, ddgCalled,
                    raw_context, genCalls, html_content, sent, exitCode,
                    analyzerAttrs, genAnswer, ddgQueries, fnArg,
                    fnResult, promptLen >>

\* variant of lines 175-188 without the except clause: a raise leaves the
\* function and the acquisition loop and reaches __main__'s handler
SpsAfterCall_NoCatch(out, n) ==
    IF out = "text"
    THEN /\ res_text' = Text("project", n)
         /\ projText' = Text("project", n)
         /\ pc' = "fallback_check"
         /\ UNCHANGED mi
    ELSE IF out = "raise"
    THEN /\ pc' = "top_except"
         /\ UNCHANGED << res_text, projText, mi >>
    ELSE /\ mi' = mi + 1
         /\ pc' = "sps_loop"
         /\ UNCHANGED << res_text, projText >>

\* variant of line 185 that returns any result, empty or not
\* ("return str(res)" without "if res")
SpsAfterCall_EmptyWins(out, n) ==
    IF out \in {"text", "empty"}
    THEN /\ res_text' = IF out = "text" THEN Text("project", n) ELSE NoText
         /\ projText' = IF out = "text" THEN Text("project", n) ELSE NoText
         /\ pc' = "fallback_check"
         /\ UNCHANGED mi
    ELSE /\ mi' = mi + 1
         /\ pc' = "sps_loop"
         /\ UNCHANGED << res_text, projText >>

\* variant of lines 182-188 that calls a raising method again, up to
\* three more times, before it goes to the next name
SpsAfterCall_Retry(out, n) ==
    IF out = "text"
    THEN /\ res_text' = Text("project", n)
         /\ projText' = Text("project", n)
         /\ pc' = "fallback_check"
         /\ UNCHANGED mi
    ELSE IF out = "raise" /\ nameCalls < 3
    THEN /\ pc' = "sps_call1"
         /\ UNCHANGED << res_text, projText, mi >>
    ELSE /\ mi' = mi + 1
         /\ pc' = "sps_loop"
         /\ UNCHANGED << res_text, projText >>

\* what follows a call of a probed method, lines 182-188: a raise is logged
\* and the loop continues, an empty result falls through to the next name,
\* a non-empty result is returned as str(res)
SpsAfterCall(out, n) ==
    IF out = "text"
    THEN /\ res_text' = Text("project", n)
         /\ projText' = Text("project", n)
         /\ pc' = "fallback_check"
         /\ UNCHANGED mi
    ELSE /\ mi' = mi + 1
         /\ pc' = "sps_loop"
         /\ UNCHANGED << res_text, projText >>

\* lines 175-178, 182-188: res = func(query)
SpsCall1 ==
    /\ pc = "sps_call1"
    /\ nameCalls' = nameCalls + 1
    /\ \E out \in {"TypeError", "raise", "empty", "text"} :
       \E n \in (IF out = "text" THEN ProjLens ELSE {0}) :
          /\ call' = Call("method", qi, mi, "query", out, out = "raise")
          /\ IF out = "TypeError"
             THEN /\ pc' = "sps_call2"
                  /\ UNCHANGED << res_text, projText, mi >>
             ELSE SpsAfterCall(out, n)
    /\ UNCHANGED << SearchService, LLMAnalyzer, search_service,
                    llm_analyzer, qi, ddgCalled, found, raw_context,
                    genCalls, html_content, sent, exitCode,
                    analyzerAttrs, genAnswer, ddgQueries, fnArg,
                    fnResult, promptLen >>

\* lines 179-180, 182-188: except TypeError: res = func(query, 10)
SpsCall2 ==
    /\ pc = "sps_call2"
    /\ nameCalls' = nameCalls + 1
    /\ \E out \in {"raise", "empty", "text"} :
       \E n \in (IF out = "text" THEN ProjLens ELSE {0}) :
          /\ call' = Call("method", qi, mi, "query,10", out, out = "raise")
          /\ SpsAfterCall(out, n)
    /\ UNCHANGED << SearchService, LLMAnalyzer, search_service,
                    llm_analyzer, qi, ddgCalled, found, raw_context,
                    genCalls, html_content, sent, exitCode,
                    analyzerAttrs, genAnswer, ddgQueries, fnArg,
                    fnResult, promptLen >>

\* line 189: return None
SpsReturnNone ==
    /\ pc = "sps_loop"
    /\ mi > Len(possible_methods)
    /\ res_text' = NoText
    /\ projText' = NoText
    /\ pc' = "fallback_check"
    /\ call' = NoCall
    /\ UNCHANGED << SearchService, LLMAnalyzer, search_service,
                    llm_analyzer, qi, ddgCalled, mi, found, raw_context,
                    genCalls, html_content, sent, exitCode,
                    analyzerAttrs, genAnswer, ddgQueries, fnArg,
                    fnResult, nameCalls, promptLen >>

\* variant of line 237 with the comparison off by one (<= instead of <)
NeedsFallback_OffByOne(t) == ~Truthy(t) \/ t.len <= Threshold

\* line 237: if not res_text or len(res_text) < 100
NeedsFallback(t) == ~Truthy(t) \/ t.len < Threshold

\* line 237, after smart_project_search has returned (its locals are gone)
FallbackCheck ==
    /\ pc = "fallback_check"
    /\ pc' = IF NeedsFallback(res_text) THEN "ddg" ELSE "append"
    /\ mi' = 0
    /\ found' = 0
    /\ nameCalls' = 0
    /\ call' = NoCall
    /\ UNCHANGED << SearchService, LLMAnalyzer, search_service,
                    llm_analyzer, qi, res_text, projText, ddgCalled,
                    raw_context, genCalls, html_content, sent, exitCode,
                    analyzerAttrs, genAnswer, ddgQueries, fnArg,
                    fnResult, promptLen >>

\* lines 141-161 and 238: a raise inside is logged and "" is returned;
\* the result replaces res_text
FallbackSearchDdg ==
    /\ pc = "ddg"
    /\ \E out \in {"raise", "empty", "text"} :
       \E n \in (IF out = "text" THEN DdgLens ELSE {0}) :
          /\ call' = Call("ddg", qi, 0, "query", out, out = "raise")
          /\ res_text' = IF out = "text" THEN Text("ddg", n) ELSE NoText
    /\ ddgCalled' = TRUE
    /\ ddgQueries' = ddgQueries \cup {qi}
    /\ pc' = "append"
    /\ UNCHANGED << SearchService, LLMAnalyzer, search_service,
                    llm_analyzer, qi, projText, mi, found, raw_context,
                    genCalls, html_content, sent, exitCode,
                    analyzerAttrs, genAnswer, fnArg, fnResult, nameCalls,
                    promptLen >>

\* variant of lines 240-241 that puts the new piece in front of the
\* corpus (raw_context = piece + raw_context)
AppendContribution_Prepend ==
    /\ pc = "append"
    /\ raw_context' = IF Truthy(res_text)
                      THEN << Contribution(qi, res_text) >> \o raw_context
                      ELSE raw_context
    /\ qi' = qi + 1
    /\ pc' = "q_head"
    /\ call' = NoCall
    /\ UNCHANGED << SearchService, LLMAnalyzer, search_service,
                    llm_analyzer, res_text, projText, ddgCalled, mi,
                    found, genCalls, html_content, sent, exitCode,
                    analyzerAttrs, genAnswer, ddgQueries, fnArg,
                    fnResult, nameCalls, promptLen >>

\* lines 240-241: if res_text: raw_context += ...; then the next query
AppendContribution ==
    /\ pc = "append"
    /\ raw_context' = IF Truthy(res_text)
                      THEN Append(raw_context, Contribution(qi, res_text))
                      ELSE raw_context
    /\ qi' = qi + 1
    /\ pc' = "q_head"
    /\ call' = NoCall
    /\ UNCHANGED << SearchService, LLMAnalyzer, search_service,
                    llm_analyzer, res_text, projText, ddgCalled, mi,
                    found, genCalls, html_content, sent, exitCode,
                    analyzerAttrs, genAnswer, ddgQueries, fnArg,
                    fnResult, nameCalls, promptLen >>

\* variant of line 245 that stops only on an empty corpus
Insufficient_EmptyOnly(rc) == rc = << >>

\* line 245: len(raw_context) < 100
Insufficient(rc) == RawLen(rc) < HardMin

\* lines 253-258: SOURCE DATA: {raw_context}, the corpus goes into the
\* prompt as it is
PromptCorpusLen(rc) == RawLen(rc)

\* lines 243-286: if len(raw_context) < 100: sys.exit(0); else the prompt
\* is built
CorpusCheck ==
    /\ pc = "corpus_check"
    /\ IF Insufficient(raw_context)
       THEN /\ SysExit0
            /\ UNCHANGED promptLen
       ELSE /\ pc' = "gen"
            /\ promptLen' = PromptCorpusLen(raw_context)
            /\ UNCHANGED exitCode
    /\ call' = NoCall
    /\ UNCHANGED << SearchService, LLMAnalyzer, search_service,
                    llm_analyzer, qi, res_text, projText, ddgCalled, mi,
                    found, raw_context, genCalls, html_content, sent,
                    analyzerAttrs, genAnswer, ddgQueries, fnArg,
                    fnResult, nameCalls >>

\* ------------------------------------------------------------ generation

\* variant of lines 298-308 in which a returned text is stored but the
\* delivery step is skipped
GenReturned_SkipDelivery(s) ==
    /\ html_content' = s
    /\ pc' = "ret"

\* an analyzer call returned: on to line 298
GenReturned(s) ==
    /\ html_content' = s
    /\ pc' = "gen_check"

\* an analyzer call raised into "except Exception" of lines 310-312
GenRaised ==
    /\ pc' = "ret"
    /\ UNCHANGED html_content

CallOut(a) == IF a.kind = "raise" THEN "raise" ELSE "ok"

\* lines 290-295: hasattr(llm_analyzer, 'chat') -> chat(prompt);
\* elif hasattr(llm_analyzer, 'analyze') -> analyze(prompt); else nothing
Generate ==
    /\ pc = "gen"
    /\ \E attrs \in SUBSET {"chat", "analyze"} :
          /\ analyzerAttrs' = attrs
          /\ IF "chat" \in attrs
             THEN \E a \in GenAnswers :
                     /\ call' = Call("chat", 0, 0, "prompt", CallOut(a),
                                     a.kind = "raise")
                     /\ genCalls' = Append(genCalls, "chat(prompt)")
                     /\ genAnswer' = a
                     /\ IF a.kind = "raise" THEN GenRaised
                        ELSE GenReturned(a.text)
             ELSE IF "analyze" \in attrs
             THEN \E a \in GenAnswers :
                     /\ call' = Call("analyze", 0, 0, "prompt", CallOut(a),
                                     FALSE)
                     /\ genCalls' = Append(genCalls, "analyze(prompt)")
                     /\ genAnswer' = a
                     /\ IF a.kind = "raise"
                        THEN /\ pc' = "gen_analyze2"
                             /\ UNCHANGED html_content
                        ELSE GenReturned(a.text)
             ELSE /\ pc' = "gen_check"
                  /\ call' = NoCall
                  /\ UNCHANGED << genCalls, genAnswer, html_content >>
    /\ UNCHANGED << SearchService, LLMAnalyzer, search_service,
                    llm_analyzer, qi, res_text, projText, ddgCalled, mi,
                    found, raw_context, sent, exitCode, ddgQueries,
                    fnArg, fnResult, nameCalls, promptLen >>

\* line 296: except: html_content = await llm_analyzer.analyze("000001", prompt)
GenerateAnalyze2 ==
    /\ pc = "gen_analyze2"
    /\ \E a \in GenAnswers :
          /\ call' = Call("analyze", 0, 0, "000001,prompt", CallOut(a),
                          a.kind = "raise")
          /\ genCalls' = Append(genCalls, "analyze(000001,prompt)")
          /\ genAnswer' = a
          /\ IF a.kind = "raise" THEN GenRaised ELSE GenReturned(a.text)
    /\ UNCHANGED << SearchService, LLMAnalyzer, search_service,
                    llm_analyzer, qi, res_text, projText, ddgCalled, mi,
                    found, raw_context, sent, exitCode, ddgQueries,
                    analyzerAttrs, fnArg, fnResult, nameCalls, promptLen >>

\* variant of line 298 without the emptiness test
Falsy_Never(s) == FALSE

\* line 298: not html_content
Falsy(s) == s = << >>

\* lines 298-300: if not html_content: sys.exit(0)
GenCheck ==
    /\ pc = "gen_check"
    /\ IF Falsy(html_content)
       THEN SysExit0
       ELSE /\ pc' = "deliver"
            /\ UNCHANGED exitCode
    /\ call' = NoCall
    /\ UNCHANGED << SearchService, LLMAnalyzer, search_service,
                    llm_analyzer, qi, res_text, projText, ddgCalled, mi,
                    found, raw_context, genCalls, html_content, sent,
                    analyzerAttrs, genAnswer, ddgQueries, fnArg,
                    fnResult, nameCalls, promptLen >>

\* lines 302-308 (and 99-138): clean the text, hand it to
\* send_email_standalone, which reports True or False and never raises
Deliver ==
    /\ pc = "deliver"
    /\ html_content' = CleanHtml(html_content)
    /\ sent' = Append(sent, CleanHtml(html_content))
    /\ \E ok \in BOOLEAN :
          call' = Call("send_email_standalone", 0, 0, "subject,html_content",
                       IF ok THEN "True" ELSE "False", ~ok)
    /\ pc' = "ret"
    /\ UNCHANGED << SearchService, LLMAnalyzer, search_service,
                    llm_analyzer, qi, res_text, projText, ddgCalled, mi,
                    found, raw_context, genCalls, exitCode,
                    analyzerAttrs, genAnswer, ddgQueries, fnArg,
                    fnResult, nameCalls, promptLen >>

\* ------------------------------------------------------------- __main__
\* lines 316-317: asyncio.run(...) returned; sys.exit(0)
MainReturn ==
    /\ pc = "ret"
    /\ SysExit0
    /\ call' = NoCall
    /\ UNCHANGED << SearchService, LLMAnalyzer, search_service,
                    llm_analyzer, qi, res_text, projText, ddgCalled, mi,
                    found, raw_context, genCalls, html_content, sent,
                    analyzerAttrs, genAnswer, ddgQueries, fnArg,
                    fnResult, nameCalls, promptLen >>

\* lines 318-320: except Exception: log; sys.exit(0)
MainExcept ==
    /\ pc = "top_except"
    /\ SysExit0
    /\ call' = NoCall
    /\ UNCHANGED << SearchService, LLMAnalyzer, search_service,
                    llm_analyzer, qi, res_text, projText, ddgCalled, mi,
                    found, raw_context, genCalls, html_content, sent,
                    analyzerAttrs, genAnswer, ddgQueries, fnArg,
                    fnResult, nameCalls, promptLen >>

Next ==
    \/ Start
    \/ SearchServiceCtor1
    \/ SearchServiceCtor2
    \/ LLMAnalyzerCtor1
    \/ LLMAnalyzerCtor2
    \/ AnalyzerCheck
    \/ QueryHead
    \/ SpsProbe
    \/ SpsCall1
    \/ SpsCall2
    \/ SpsReturnNone
    \/ FallbackCheck
    \/ FallbackSearchDdg
    \/ AppendContribution
    \/ CorpusCheck
    \/ Generate
    \/ GenerateAnalyze2
    \/ GenCheck
    \/ Deliver
    \/ MainReturn
    \/ MainExcept

Spec == Init /\ [][Next]_vars

\* ------------------------------------------------------------------ claims
SpsPcs == {"sps_loop", "sps_call1", "sps_call2"}
AcquisitionPcs == SpsPcs \cup {"fallback_check", "ddg", "append"}
AfterAcquisitionPcs ==
    {"corpus_check", "gen", "gen_analyze2", "gen_check", "deliver", "ret"}
Range(f) == {f[i] : i \in DOMAIN f}
AllQueries == 1..NumQueries
\* the acquisition loop has finished
LoopDone == qi > NumQueries

\* C1: once the project tier's text has reached the threshold of 100
\* characters, fallback_search_ddg is not called for that query; it is called
\* only when the project tier was unavailable or returned nothing or fewer
\* than 100 characters.
C1_NoFallbackOnceSufficient ==
    /\ projText.len >= Threshold =>
          (pc # "ddg" /\ ~ddgCalled /\ call.kind # "ddg")
    /\ (pc = "ddg" \/ ddgCalled \/ call.kind = "ddg") =>
          \/ search_service = "None"
          \/ projText = NoText
          \/ projText.len < Threshold

\* the project tier returned a text of at least 100 characters and the
\* decision of line 237 went straight to the append
C1_Witness ==
    /\ pc = "append"
    /\ projText.len >= Threshold
    /\ ~ddgCalled

\* C2: when the project tier returned non-empty text below the threshold and
\* the fallback tier was then tried, the project tier's text is still part of
\* the query's contribution after the fallback returned.
C2_ProjectTextKept ==
    (pc = "q_head" /\ qi > 1 /\ projText # NoText) =>
        \E i \in DOMAIN raw_context :
            /\ raw_context[i].q = qi - 1
            /\ "project" \in raw_context[i].parts

\* C3: an exception raised by a probed method of the search service or by
\* the DuckDuckGo call is caught and logged, contributes nothing, and the
\* loop goes on: the next name or tier is tried, and the run leaves the
\* acquisition only when every query has been processed.
C3_SearchFailureDoesNotAbort ==
    /\ (call.kind \in {"method", "ddg"} /\ call.out = "raise") =>
          /\ call.logged
          /\ exitCode = -1
          /\ res_text = NoText
          /\ call.q = qi
          /\ IF call.kind = "method"
             THEN pc = "sps_loop" /\ mi = call.m + 1
             ELSE pc = "append"
    /\ (call.kind = "method" /\ call.out = "TypeError") =>
          (pc = "sps_call2" /\ exitCode = -1)
    /\ pc \in AcquisitionPcs => (exitCode = -1 /\ qi \in AllQueries)
    /\ (pc \in AfterAcquisitionPcs \/ (pc = "exit" /\ llm_analyzer # "None"))
          => LoopDone

\* a probed method has just raised and the method loop is at the next name
C3_Witness ==
    /\ call.kind = "method"
    /\ call.out = "raise"
    /\ pc = "sps_loop"
    /\ qi < NumQueries

\* C4: when the combined corpus after all queries is shorter than the hard
\* minimum of 100 characters, no generation call and no delivery call is
\* made, and the process exits with code 0.
C4_InsufficientCorpusNoOp ==
    (LoopDone /\ RawLen(raw_context) < HardMin) =>
        /\ genCalls = << >>
        /\ sent = << >>
        /\ call.kind \notin {"chat", "analyze", "send_email_standalone"}
        /\ pc \in {"q_head", "corpus_check", "exit"}
        /\ exitCode = (IF pc = "exit" THEN 0 ELSE -1)

\* the run has exited with a corpus that is not empty but too short
C4_Witness ==
    /\ pc = "exit"
    /\ LoopDone
    /\ raw_context # << >>
    /\ RawLen(raw_context) < HardMin
    /\ exitCode = 0

\* C5: the generation stage ends in failure only after every generation
\* candidate the analyzer offers (chat, analyze(prompt),
\* analyze("000001", prompt)) has been tried.
C5_FailureOnlyAfterAllCandidates ==
    (pc = "ret" /\ sent = << >>) =>
        /\ "chat" \in analyzerAttrs => "chat(prompt)" \in Range(genCalls)
        /\ "analyze" \in analyzerAttrs =>
              {"analyze(prompt)", "analyze(000001,prompt)"}
                  \subseteq Range(genCalls)

\* the generation stage is over and gave no usable text: the last call
\* raised, or the text in hand is empty
NoUsableText ==
    /\ pc \in {"gen_check", "deliver", "ret", "exit"}
    /\ LoopDone
    /\ RawLen(raw_context) >= HardMin
    /\ genAnswer.text = << >>

\* C6: when generation yields no usable text (every attempted call raised,
\* or the returned text is empty), send_email_standalone is never called and
\* the process exits with code 0.
C6_NoTextNoDelivery ==
    NoUsableText =>
        /\ sent = << >>
        /\ call.kind # "send_email_standalone"
        /\ pc # "deliver"
        /\ exitCode = (IF pc = "exit" THEN 0 ELSE -1)

\* analyze(prompt) raised, analyze("000001", prompt) returned an empty text,
\* and the run has exited
C6_Witness ==
    /\ pc = "exit"
    /\ Len(genCalls) = 2
    /\ genAnswer = [kind |-> "return", text |-> << >>]
    /\ sent = << >>
    /\ exitCode = 0

\* C7 as stated: in every run where the combined corpus reaches the hard
\* minimum, generation is invoked exactly once, and delivery at most once.
C7_GenerationExactlyOnce ==
    (pc = "exit" /\ LoopDone /\ RawLen(raw_context) >= HardMin) =>
        /\ Len(genCalls) = 1
        /\ Len(sent) <= 1

GenCallPatterns ==
    { << >>,
      << "chat(prompt)" >>,
      << "analyze(prompt)" >>,
      << "analyze(prompt)", "analyze(000001,prompt)" >> }

\* C7 amended: the generation stage makes one chat call when the analyzer
\* has chat, otherwise analyze(prompt) and, only after that raised,
\* analyze("000001", prompt), and no call when it has neither; generation is
\* called only with a corpus that reached the hard minimum; when the last
\* call returned non-empty text, delivery is invoked exactly once, with the
\* cleaned text; delivery never precedes a returned generation call and is
\* never invoked twice.
C7_GenerationThenDelivery ==
    /\ genCalls \in GenCallPatterns
    /\ genCalls # << >> => (LoopDone /\ RawLen(raw_context) >= HardMin)
    /\ pc = "gen_analyze2" =>
          call = Call("analyze", 0, 0, "prompt", "raise", FALSE)
    /\ Len(sent) <= 1
    /\ sent # << >> =>
          /\ genAnswer.kind = "return"
          /\ genAnswer.text # << >>
          /\ sent[1] = CleanHtml(genAnswer.text)
          /\ pc \in {"ret", "exit"}
    /\ (pc = "exit" /\ LoopDone /\ RawLen(raw_context) >= HardMin) =>
          /\ "chat" \in analyzerAttrs => genCalls = << "chat(prompt)" >>
          /\ analyzerAttrs = {"analyze"} =>
                (genCalls # << >> /\ genCalls[1] = "analyze(prompt)")
          /\ analyzerAttrs = {} => genCalls = << >>
          /\ (genAnswer.kind = "return" /\ genAnswer.text # << >>) =>
                Len(sent) = 1

\* both analyze calls were made, the second returned a fenced text, and the
\* cleaned text was delivered once
C7_Witness ==
    /\ pc = "exit"
    /\ Len(genCalls) = 2
    /\ Len(sent) = 1
    /\ sent[1] # genAnswer.text
    /\ sent[1] = << "x" >>

C9_Inv ==
    /\ pc = "sps_call1" => (call = NoCall /\ mi \in DOMAIN possible_methods)
    /\ pc = "sps_call2" =>
          call = Call("method", qi, mi, "query", "TypeError", FALSE)
    /\ (call.kind = "method" /\ call.out \in {"raise", "empty"}) =>
          (pc = "sps_loop" /\ mi = call.m + 1 /\ res_text = NoText)
    /\ (call.kind = "method" /\ call.out = "text") =>
          (pc = "fallback_check" /\ mi = call.m /\ res_text.len > 0
              /\ res_text.parts = {"project"})
    /\ (pc = "fallback_check" /\ search_service # "None") =>
          IF res_text # NoText
          THEN call.kind = "method" /\ call.out = "text"
          ELSE call = NoCall /\ mi = Len(possible_methods) + 1

\* what holds of every step of smart_project_search
C9_Step ==
    /\ (pc \in SpsPcs /\ pc' \in SpsPcs) => mi' \in {mi, mi + 1}
    /\ (pc \in SpsPcs /\ mi' = mi + 1) =>
          (call'.kind = "method" => call'.out \in {"raise", "empty"})
    /\ call'.kind = "method" =>
          /\ pc \in {"sps_call1", "sps_call2"}
          /\ call'.m = mi
          /\ call'.q = qi
          /\ call'.args = (IF pc = "sps_call1" THEN "query" ELSE "query,10")
    /\ (call.kind = "method" /\ call.out = "text") => call'.kind # "method"

\* C9: smart_project_search tries the names in their listed order; each
\* existing method is first called with the query alone and with the extra
\* limit argument only after a TypeError; the first non-empty result wins
\* and no later method is invoked; a method that fails or returns an empty
\* result is skipped; when none wins the result is None.
C9_MethodProbing == [](C9_Inv) /\ [][C9_Step]_vars

\* the first existing method lost, the second won on its call with the
\* limit argument
C9_Witness ==
    /\ pc = "fallback_check"
    /\ res_text # NoText
    /\ found = 2
    /\ call.args = "query,10"

\* C10: a collaborator is treated as absent only after the constructor was
\* tried with the config object, with the config as a plain mapping and, as
\* the last attempt, with no arguments, and all of them raised.
C10_AbsentOnlyAfterNoArgAttempt ==
    /\ (pc = "an_ctor1" /\ call.kind = "SearchService" /\ call.out = "raise")
          => call.args = ""
    /\ (pc \in {"an_check", "exit"} /\ call.kind = "LLMAnalyzer"
            /\ call.out = "raise")
          => call.args = ""

\* C11: every query's result text is cut to 3000 characters before it is
\* added to raw_context: each query's result portion in raw_context is at
\* most 3000 characters long.
C11_PerQueryBudget ==
    \A i \in DOMAIN raw_context :
        /\ raw_context[i].len <= TruncBudget
        /\ raw_context[i].len > 0

\* a fallback text of 3500 characters has been added as a piece of 3000
C11_Witness ==
    /\ pc = "q_head"
    /\ res_text.len > TruncBudget
    /\ raw_context # << >>
    /\ raw_context[Len(raw_context)].q = qi - 1
    /\ raw_context[Len(raw_context)].len = TruncBudget

\* the longest corpus four queries can add: per query the two tags, the
\* query, 3000 characters of results and the final newline
RECURSIVE MaxCorpusUpTo(_)
MaxCorpusUpTo(q) ==
    IF q = 0 THEN 0
    ELSE QueryTagLen + QLen[q] + ResultsTagLen + TruncBudget + TailLen
            + MaxCorpusUpTo(q - 1)

MaxCorpusLen == MaxCorpusUpTo(NumQueries)

PipelineIdle ==
    /\ SearchService = FALSE
    /\ LLMAnalyzer = FALSE
    /\ search_service = "None"
    /\ llm_analyzer = "None"
    /\ qi = 1
    /\ res_text = NoText
    /\ projText = NoText
    /\ ddgCalled = FALSE
    /\ mi = 0
    /\ found = 0
    /\ call = NoCall
    /\ raw_context = << >>
    /\ ddgQueries = {}
    /\ analyzerAttrs = {}
    /\ genCalls = << >>
    /\ genAnswer = NoAnswer
    /\ html_content = << >>
    /\ sent = << >>
    /\ exitCode = -1
    /\ nameCalls = 0
    /\ promptLen = 0

pipelineVars ==
    << SearchService, LLMAnalyzer, search_service, llm_analyzer, qi,
       res_text, projText, ddgCalled, mi, found, call, raw_context,
       ddgQueries, analyzerAttrs, genCalls, genAnswer, html_content, sent,
       exitCode, nameCalls, promptLen >>

\* values of a field of a result item: the key is missing, its value is
\* None, or its value is a string
Absent == "<absent>"
PyNone == "<None>"
FieldValues(v) == {Absent, PyNone, "", v}

\* lines 146, 151-157: the items DDGS().text can hand back: a dict with or
\* without the keys title, body and snippet, a bare string, or something
\* else (given by its str())
RawItems ==
    {[shape |-> "dict", title |-> t, body |-> b, snippet |-> sn,
      value |-> ""] :
         t \in FieldValues("T"), b \in FieldValues("B"),
         sn \in FieldValues("S")}
    \cup {[shape |-> "str", title |-> Absent, body |-> Absent,
           snippet |-> Absent, value |-> v] : v \in {"", "text"}}
    \cup {[shape |-> "other", title |-> Absent, body |-> Absent,
           snippet |-> Absent, value |-> v] : v \in {"7", "None", "[1, 2]"}}

\* dict.get(key, default): the default is used only when the key is missing
DictGet(v, default) == IF v = Absent THEN default ELSE v

\* formatting of a value inside an f-string
FormatValue(v) == IF v = PyNone THEN "None" ELSE v

\* lines 152-157: the title and body taken from one item and the text
\* appended to text_res (as the list of its parts)
NormalizeItem(r) ==
    IF r.shape = "dict"
    THEN LET title == DictGet(r.title, "No Title")
             body == DictGet(r.body, DictGet(r.snippet, ""))
         IN [title |-> title, body |-> body,
             piece |-> << "Source: ", FormatValue(title), "\nContent: ",
                          FormatValue(body), "\n---\n" >>]
    ELSE [title |-> Absent, body |-> r.value,
          piece |-> << r.value, "\n---\n" >>]

InitNormalize ==
    /\ pc = "normalize"
    /\ PipelineIdle
    /\ fnArg \in RawItems
    /\ fnResult = << >>

\* lines 151-157: one turn of "for r in results"
NormalizeStep ==
    /\ pc = "normalize"
    /\ fnResult' = NormalizeItem(fnArg)
    /\ pc' = "normalized"
    /\ UNCHANGED fnArg
    /\ UNCHANGED pipelineVars

NextNormalize == NormalizeStep

SpecNormalize == InitNormalize /\ [][NextNormalize]_vars

\* C13: normalization of a result item never raises and always yields a
\* body that is not null: a mapping yields its title and its body, the
\* snippet when there is no body; a bare string yields that string as the
\* body; any other shape is stringified.
C13_NormalizeBodyNotNull ==
    pc = "normalized" =>
        /\ fnResult.body # PyNone
        /\ fnResult.body # Absent
        /\ fnArg.shape = "dict" =>
              /\ fnArg.title \notin {Absent, PyNone} =>
                    fnResult.title = fnArg.title
              /\ fnArg.body \notin {Absent, PyNone} =>
                    fnResult.body = fnArg.body
              /\ (fnArg.body \in {Absent, PyNone}
                     /\ fnArg.snippet \notin {Absent, PyNone}) =>
                    fnResult.body = fnArg.snippet
        /\ fnArg.shape \in {"str", "other"} => fnResult.body = fnArg.value

\* C14: the process exits with code 0 on normal completion (also after the
\* insufficient-data no-op and after a generation failure) and with a
\* non-zero code when a configuration or programming error occurs before
\* any provider call, as when constructing the configuration raises.
C14_ExitCodes ==
    [][pc' = "exit" => (exitCode' # 0 <=> pc = "top_except")]_vars

InitClean ==
    /\ pc = "clean"
    /\ PipelineIdle
    /\ fnArg \in HtmlTexts
    /\ fnResult = << >>

\* line 302: html_content = html_content.replace(...).replace(...).strip()
CleanStep ==
    /\ pc = "clean"
    /\ fnResult' = CleanHtml(fnArg)
    /\ pc' = "cleaned"
    /\ UNCHANGED fnArg
    /\ UNCHANGED pipelineVars

NextClean == CleanStep

SpecClean == InitClean /\ [][NextClean]_vars

\* s contains pat
Contains(s, pat) == \E i \in 1..Len(s) : StartsAt(s, i, pat)

\* C15: the text that results from the post-processing of the analyzer's
\* text (remove every html fence, then every fence, then trim) contains no
\* three consecutive backticks, also where the first removal joined
\* backticks that stood on either side of an html fence.
C15_NoFenceAfterCleaning ==
    pc = "cleaned" =>
        /\ ~Contains(fnResult, Fence)
        /\ fnResult # << >> =>
              ~IsSpace(Head(fnResult)) /\ ~IsSpace(fnResult[Len(fnResult)])

\* the first removal joins one backtick and two backticks into a fence
C15_Witness ==
    /\ pc = "cleaned"
    /\ fnArg = << "x", BT >> \o FenceHtml \o << BT, BT >>
    /\ Contains(Remove(fnArg, FenceHtml), Fence)
    /\ fnResult = << "x" >>

SearchKinds == {"method", "ddg"}

C16_Inv ==
    \* the contributions stand in the corpus in the order of the queries,
    \* one per query at most, and come from finished queries
    /\ \A i, j \in DOMAIN raw_context :
          i < j => raw_context[i].q < raw_context[j].q
    /\ \A i \in DOMAIN raw_context : raw_context[i].q \in 1..(qi - 1)
    \* generation is invoked after the loop only
    /\ genCalls # << >> => (LoopDone /\ call.kind \notin SearchKinds)
    /\ pc \in AfterAcquisitionPcs => LoopDone

C16_Step ==
    \* the loop goes from a query to the next one
    /\ qi' \in {qi, qi + 1}
    \* a search call is made for the current query, before generation, and
    \* after every search call of the queries before it
    /\ call'.kind \in SearchKinds =>
          /\ call'.q = qi
          /\ qi' = qi
          /\ qi \in AllQueries
          /\ genCalls = << >>
          /\ genCalls' = << >>
          /\ \A p \in ddgQueries : p <= qi
    \* the project tier comes before DuckDuckGo within the query
    /\ call'.kind = "method" =>
          /\ ~ddgCalled
          /\ qi \notin ddgQueries
    /\ call'.kind = "ddg" =>
          /\ ~ddgCalled
          /\ qi \notin ddgQueries
          /\ pc = "ddg"

\* C16: the queries are processed one after another in their order: every
\* search call is made for the current query, after the calls of the queries
\* before it; within a query the project tier is tried before DuckDuckGo; the
\* contributions stand in the corpus in query order; no search call is made
\* once generation was invoked.
C16_SequentialQueries == [](C16_Inv) /\ [][C16_Step]_vars

\* all four queries contributed, the first from the project tier and the
\* second from DuckDuckGo after the project tier gave nothing usable
C16_Witness ==
    /\ pc = "corpus_check"
    /\ Len(raw_context) = NumQueries
    /\ raw_context[1].parts = {"project"}
    /\ raw_context[2].parts = {"ddg"}
    /\ ddgQueries = {2, 3}

\* C17: every failed candidate attempt is caught and recorded before the
\* next candidate is tried: a constructor attempt, a search method call or a
\* generation call that raises produces a log record, so there are as many
\* failure records as failed attempts.
C17_EveryFailureLogged ==
    (call.kind \in {"SearchService", "LLMAnalyzer", "method", "ddg",
                    "chat", "analyze"}
        /\ call.out = "raise") => call.logged

\* C18: when no analyzer instance could be constructed the run stops before
\* the acquisition: no search tier is called for any query, no generation
\* call and no delivery call is made, and the process exits with code 0.
C18_NoAnalyzerNoWork ==
    llm_analyzer = "None" =>
        /\ pc \in {"start", "top_except", "ss_ctor1", "ss_ctor2",
                   "an_ctor1", "an_ctor2", "an_check", "exit"}
        /\ call.kind \in {"none", "SearchService", "LLMAnalyzer"}
        /\ qi = 1
        /\ ddgQueries = {}
        /\ ~ddgCalled
        /\ raw_context = << >>
        /\ genCalls = << >>
        /\ sent = << >>
        /\ pc = "exit" => exitCode = 0

\* a search service was constructed, both attempts to construct the
\* analyzer raised, and the run has exited at line 217
C18_Witness ==
    /\ pc = "exit"
    /\ LLMAnalyzer
    /\ search_service # "None"
    /\ llm_analyzer = "None"
    /\ exitCode = 0

\* A bound on the number of steps a run can still take, by control
\* position: three steps for each method name not yet passed (probe,
\* func(query), func(query, 10)), then the fallback and the append, for the
\* current query and for each query after it, then the generation stage.
NumNames == Len(possible_methods)
StepsPerQuery == 3 * NumNames + 8
StepsAfterLoop == Cardinality(AfterAcquisitionPcs) + 2
InQuerySteps ==
    CASE pc = "q_head" -> 3 * NumNames + 7
      [] pc = "sps_loop" -> 3 * (NumNames + 2 - mi) + 3
      [] pc = "sps_call1" -> 3 * (NumNames + 2 - mi) + 2
      [] pc = "sps_call2" -> 3 * (NumNames + 2 - mi) + 1
      [] pc = "fallback_check" -> 3
      [] pc = "ddg" -> 2
      [] pc = "append" -> 1
      [] OTHER -> 0
StepsAtLoopEntry == (NumQueries - 1) * StepsPerQuery + 3 * NumNames + 7
                        + StepsAfterLoop
StepsLeft ==
    CASE pc = "exit" -> 0
      [] pc \in {"ret", "top_except"} -> 1
      [] pc = "deliver" -> 2
      [] pc = "gen_check" -> 3
      [] pc = "gen_analyze2" -> 4
      [] pc = "gen" -> 5
      [] pc = "corpus_check" -> 6
      [] pc \in AcquisitionPcs \cup {"q_head"} ->
            (NumQueries - qi) * StepsPerQuery + InQuerySteps + StepsAfterLoop
      [] pc = "an_check" -> StepsAtLoopEntry + 1
      [] pc = "an_ctor2" -> StepsAtLoopEntry + 2
      [] pc = "an_ctor1" -> StepsAtLoopEntry + 3
      [] pc = "ss_ctor2" -> StepsAtLoopEntry + 4
      [] pc = "ss_ctor1" -> StepsAtLoopEntry + 5
      [] pc = "start" -> StepsAtLoopEntry + 6

C19_Inv ==
    \* at most two calls of a method name, two generation calls, one delivery
    /\ nameCalls <= 2
    /\ Len(genCalls) <= 2
    /\ Len(sent) <= 1
    /\ ddgQueries \subseteq AllQueries
    /\ qi \in 1..(NumQueries + 1)
    /\ mi \in 0..(NumNames + 1)
    \* a run that has not exited can take a step, and the number of steps it
    \* can still take is bounded
    /\ StepsLeft >= 0
    /\ pc # "exit" => ENABLED Next

C19_Step ==
    \* every step brings the exit nearer
    /\ StepsLeft' < StepsLeft
    \* no loop revisits a query
    /\ qi' >= qi
    \* one DuckDuckGo call per query at most
    /\ call'.kind = "ddg" => (qi \notin ddgQueries /\ qi \in ddgQueries')
    \* no method name is tried again: after func(query) comes func(query, 10)
    \* or the next name, after func(query, 10) the next name
    /\ pc = "sps_call1" => pc' \in {"sps_call2", "sps_loop", "fallback_check"}
    /\ pc = "sps_call2" => pc' \in {"sps_loop", "fallback_check"}
    /\ (pc \in {"sps_call1", "sps_call2"} /\ pc' = "sps_loop") => mi' = mi + 1
    /\ (pc \in SpsPcs /\ pc' \in SpsPcs) => mi' >= mi
    /\ call'.kind = "method" =>
          (call'.m = mi /\ mi \in 1..NumNames)
    \* generation and delivery are not repeated
    /\ call'.kind \in {"chat", "analyze"} => Len(genCalls') = Len(genCalls) + 1
    /\ call'.kind = "send_email_standalone" => sent = << >>
    /\ pc = "gen_analyze2" => pc' \in {"gen_check", "ret"}
    /\ pc \in {"gen_check", "deliver", "ret"} =>
          (genCalls' = genCalls /\ pc' \in {"deliver", "ret", "exit"})
    \* nothing happens after the exit
    /\ pc # "exit"

\* C19: every run terminates with a bounded number of provider calls, each
\* call returning or raising: for each query at most two calls of each of
\* the seven method names and at most one DuckDuckGo call, then at most two
\* generation calls and at most one delivery call, and then the exit; no
\* candidate is tried again and no loop comes back to a query. Termination
\* is stated by a bound on the steps left that every step lowers, and by
\* the absence of a state other than the exit where the run cannot go on.
C19_BoundedCallsThenExit == [](C19_Inv) /\ [][C19_Step]_vars

\* a run with DuckDuckGo called for every query, analyze called twice and
\* one delivery has exited
C19_Witness ==
    /\ pc = "exit"
    /\ search_service # "None"
    /\ ddgQueries = AllQueries
    /\ Len(genCalls) = 2
    /\ Len(sent) = 1

====
